---- MODULE Spec2Model ----
(***************************************************************************)
(* Model of the AI Interlocutor (src/main.py): the handle_errors wrapper,  *)
(* the audio pipeline run() -> process_audio_file -> stages, and the pure  *)
(* text function remove_repetitive_sentences.                              *)
(*                                                                         *)
(* Text is a sequence of one-character strings.  Python indices are kept   *)
(* 0-based where the source computes with them (rfind, slicing).           *)
(***************************************************************************)
EXTENDS Integers, Sequences, FiniteSets, TLC

(* ---------------------------------------------------------------------- *)
(* Bounds                                                                  *)
(* ---------------------------------------------------------------------- *)
\* longest text handed to remove_repetitive_sentences in TextSpec
MaxTextLen == 6
\* longest enumerated reply of the text-generation model in Spec
MaxReplyLen == 2
\* most polls of pygame.mixer.music.get_busy() that still report "playing"
MaxPolls == 2

\* characters texts are built from: two letters, a blank, the terminator
Alphabet == {"a", "b", " ", "."}

RECURSIVE TextsOfLen(_)
TextsOfLen(n) ==
    IF n = 0 THEN {<<>>}
    ELSE {Append(t, c) : t \in TextsOfLen(n - 1), c \in Alphabet}

TextsUpTo(n) == UNION {TextsOfLen(k) : k \in 0..n}

\* the texts of TextsUpTo(n) without the letter "b"
ShortReplies(n) == {t \in TextsUpTo(n) : \A i \in DOMAIN t : t[i] # "b"}

(* ---------------------------------------------------------------------- *)
(* Python string primitives used by remove_repetitive_sentences            *)
(* ---------------------------------------------------------------------- *)
SetMax(S) == CHOOSE x \in S : \A y \in S : y <= x
SetMin(S) == CHOOSE x \in S : \A y \in S : x <= y

\* str.rfind("."): 0-based index of the last ".", or -1
rfind(text) ==
    LET S == {i \in 1..Len(text) : text[i] = "."}
    IN  IF S = {} THEN -1 ELSE SetMax(S) - 1

\* mutant: the slice keeps the whole text
SliceToWhole(text, n) == text

\* text[:n]
SliceTo(text, n) == SubSeq(text, 1, IF n < Len(text) THEN n ELSE Len(text))

\* str.split("."): the pieces between terminators, empty pieces included
RECURSIVE split(_)
split(s) ==
    LET S == {i \in 1..Len(s) : s[i] = "."}
    IN  IF S = {} THEN <<s>>
        ELSE LET i == SetMin(S)
             IN  <<SubSeq(s, 1, i - 1)>> \o split(SubSeq(s, i + 1, Len(s)))

IsSpace(c) == c \in {" ", "\n", "\t"}

RECURSIVE lstrip(_)
lstrip(s) == IF s # <<>> /\ IsSpace(Head(s)) THEN lstrip(Tail(s)) ELSE s

RECURSIVE rstrip(_)
rstrip(s) ==
    IF s # <<>> /\ IsSpace(s[Len(s)]) THEN rstrip(SubSeq(s, 1, Len(s) - 1)) ELSE s

\* str.strip()
strip(s) == rstrip(lstrip(s))

\* mutant: every sentence is written back as "sentence. "
RECURSIVE join_spaced(_)
join_spaced(parts) ==
    IF parts = <<>> THEN <<>>
    ELSE parts[1] \o <<".", " ">> \o join_spaced(Tail(parts))

\* ".".join(parts)
RECURSIVE join(_)
join(parts) ==
    IF parts = <<>> THEN <<>>
    ELSE IF Len(parts) = 1 THEN parts[1]
    ELSE parts[1] \o <<".">> \o join(Tail(parts))

\* mutant: the loop keeps every non-empty sentence
RECURSIVE DedupLoopKeepAll(_, _, _)
DedupLoopKeepAll(sentences, unique_sentences, non_repetitive_sentences) ==
    IF sentences = <<>> THEN non_repetitive_sentences
    ELSE LET sentence == strip(Head(sentences))
         IN  IF sentence # <<>>
             THEN DedupLoopKeepAll(Tail(sentences),
                                   unique_sentences \cup {sentence},
                                   Append(non_repetitive_sentences, sentence))
             ELSE DedupLoopKeepAll(Tail(sentences), unique_sentences,
                                   non_repetitive_sentences)

\* the for-loop of lines 294-301: sentences still to visit, the set
\* unique_sentences and the list non_repetitive_sentences built so far
RECURSIVE DedupLoop(_, _, _)
DedupLoop(sentences, unique_sentences, non_repetitive_sentences) ==
    IF sentences = <<>> THEN non_repetitive_sentences
    ELSE LET sentence == strip(Head(sentences))
         IN  IF sentence # <<>> /\ sentence \notin unique_sentences
             THEN DedupLoop(Tail(sentences),
                            unique_sentences \cup {sentence},
                            Append(non_repetitive_sentences, sentence))
             ELSE DedupLoop(Tail(sentences), unique_sentences,
                            non_repetitive_sentences)

\* mutant: a text without a terminator is stripped before it is returned
remove_repetitive_sentences_stripped(text) ==
    LET last_period_index == rfind(text)
    IN  IF last_period_index = -1 THEN strip(text)
        ELSE CHOOSE cleaned_up \in
                 { strip(result) :
                   result \in { join(non_repetitive_sentences) :
                     non_repetitive_sentences \in { DedupLoop(sentences, {}, <<>>) :
                       sentences \in { split(text_before_last_period) :
                         text_before_last_period \in
                             {SliceTo(text, last_period_index + 1)} } } } } : TRUE

\* lines 275-306; each local of the function is bound to its value in turn
\* (a singleton set per assignment), the last being the returned text
remove_repetitive_sentences(text) ==
    LET last_period_index == rfind(text)
    IN  IF last_period_index = -1 THEN text
        ELSE CHOOSE cleaned_up \in
                 { strip(result) :
                   result \in { join(non_repetitive_sentences) :
                     non_repetitive_sentences \in { DedupLoop(sentences, {}, <<>>) :
                       sentences \in { split(text_before_last_period) :
                         text_before_last_period \in
                             {SliceTo(text, last_period_index + 1)} } } } } : TRUE

(* ---------------------------------------------------------------------- *)
(* Names, paths, texts and errors of the pipeline                          *)
(* ---------------------------------------------------------------------- *)
\* process_audio, line 361: the fixed output path
OutputName == <<"o", "u", "t", "p", "u", "t", "_", "a", "u", "d", "i", "o", ".", "w", "a", "v">>
\* file names the caller may hand to run()
WavName == <<"h", "e", "l", "l", "o", ".", "w", "a", "v">>
Mp3Name == <<"s", "o", "n", "g", ".", "m", "p", "3">>
TxtName == <<"n", "o", "t", "e", "s", ".", "t", "x", "t">>
UpperName == <<"c", "l", "i", "p", ".", "W", "A", "V">>
InputNames == {WavName, Mp3Name, TxtName, UpperName, OutputName}
Paths == InputNames \cup {OutputName}

WavSuffix == <<".", "w", "a", "v">>
Mp3Suffix == <<".", "m", "p", "3">>

\* str.endswith(suffix)
endswith(s, suffix) ==
    /\ Len(s) >= Len(suffix)
    /\ SubSeq(s, Len(s) - Len(suffix) + 1, Len(s)) = suffix

\* replies of the text-generation model: the happy-path reply of the
\* pipeline scenario, the reply of test_process_text_through_gpt, and every
\* short text over one letter, the blank and the terminator
HappyReply == <<"H", "i", ".", " ", "H", "i", ".", " ", "H", "o", "w", " ", "a", "r", "e", " ", "y", "o", "u", ".">>
TestReply == <<"g", "e", "n", "e", "r", "a", "t", "e", "d", " ", "t", "e", "x", "t">>
Replies == {HappyReply, TestReply} \cup ShortReplies(MaxReplyLen)


\* texts the speech recogniser may return
Transcripts == {<<"h", "e", "l", "l", "o">>, <<"H", "i", ".", "H", "o", "w", " ", "a", "r", "e", " ", "y", "o", "u">>}

Unset == <<"<unset>">>
\* the Python values None, True and False as returned by a call
PyNone == <<"None">>
PyTrue == <<"True">>
PyFalse == <<"False">>
NoExc == "none"

\* contents of a file
Absent == "absent"
Contents == {Absent, "orig", "stale", "wav", "partial", "tts"}

\* mutant: process_audio is left undecorated
WrappedExceptProcessAudio ==
    {"find_file", "copy_file_and_get_filename", "reformat_to_wav",
     "convert_speech_to_text", "process_text_through_gpt",
     "remove_repetitive_sentences", "convert_text_to_speech",
     "play_audio", "validate_and_reformat_audio_file", "process_audio_file"}

\* the functions decorated with @handle_errors(logger); run() is not
Wrapped == {"find_file", "copy_file_and_get_filename", "reformat_to_wav",
            "convert_speech_to_text", "process_text_through_gpt",
            "remove_repetitive_sentences", "convert_text_to_speech",
            "play_audio", "process_audio", "validate_and_reformat_audio_file",
            "process_audio_file"}

\* first line of each function body
Entry(f) ==
    CASE f = "run" -> 460
      [] f = "find_file" -> 172
      [] f = "copy_file_and_get_filename" -> 196
      [] f = "reformat_to_wav" -> 222
      [] f = "convert_speech_to_text" -> 237
      [] f = "process_text_through_gpt" -> 255
      [] f = "remove_repetitive_sentences" -> 276
      [] f = "convert_text_to_speech" -> 320
      [] f = "play_audio" -> 332
      [] f = "process_audio" -> 352
      [] f = "validate_and_reformat_audio_file" -> 378
      [] f = "process_audio_file" -> 404

UnsupportedMsg == "Error: Unsupported audio file format. Please provide a WAV or MP3 audio file."
CompletedMsg == "The task is completed."

(* ---------------------------------------------------------------------- *)
(* State                                                                   *)
(* ---------------------------------------------------------------------- *)
VARIABLES
    stack,      \* call stack: frames [fn, pc, wait, arg, site], pc = source line
    exc,        \* the exception in flight, or NoExc
    ret,        \* value returned by the call that returned last
    log,        \* records emitted through logger, oldest first
    stdout,     \* lines printed
    fs,         \* contents of each path of the working directory
    trace,      \* history: calls, returns, raises and collaborator calls
    input_file,         \* run: the path the user gave
    text,               \* process_audio: the transcript
    generated_text,     \* process_text_through_gpt: the decoded model output
    gpt_response,       \* process_audio: the cleaned-up reply
    tts,                \* process_audio: the text held by the gTTS object
    output_audio_file,  \* process_audio_file: path returned by process_audio
    response,           \* process_audio_file: transcript of the output
    music,      \* pygame.mixer.music: "idle", "loaded", "playing", "stopped"
    polls,      \* polls of get_busy() that reported playing
    tx_pc,      \* TextSpec: how often remove_repetitive_sentences was applied
    tx_in,      \* TextSpec: the text given to remove_repetitive_sentences
    tx_out,     \* TextSpec: its result
    tx_out2     \* TextSpec: the result of applying it to tx_out

txvars == <<tx_pc, tx_in, tx_out, tx_out2>>
locals == <<input_file, text, generated_text, gpt_response, tts,
            output_audio_file, response>>
pvars == <<stack, exc, ret, log, stdout, fs, trace, locals, music, polls>>
vars == <<pvars, txvars>>

(* ---------------------------------------------------------------------- *)
(* Call stack helpers                                                      *)
(* ---------------------------------------------------------------------- *)
Top == stack[Len(stack)]
Pop(s) == SubSeq(s, 1, Len(s) - 1)

\* control is in the body of f at the given line
At(f, line) ==
    /\ exc = NoExc
    /\ stack # <<>>
    /\ Top.fn = f /\ Top.pc = line /\ ~Top.wait

\* the call made by f at the given line has just returned
Back(f, line) ==
    /\ exc = NoExc
    /\ stack # <<>>
    /\ Top.fn = f /\ Top.pc = line /\ Top.wait

Goto(line) == [stack EXCEPT ![Len(stack)] = [@ EXCEPT !.pc = line, !.wait = FALSE]]

Event(e, o, s, v) == [ev |-> e, op |-> o, site |-> s, val |-> v]

\* f(a) is called from the current line
Call(f, a) ==
    /\ stack' = Append([stack EXCEPT ![Len(stack)].wait = TRUE],
                       [fn |-> f, pc |-> Entry(f), wait |-> FALSE, arg |-> a,
                        site |-> Top.pc])
    /\ trace' = Append(trace, Event("call", f, Top.pc, a))

\* a collaborator (library) call made at the current line
Ext(o, a) == Append(trace, Event("ext", o, Top.pc, a))

\* the current function returns v; tr is the history up to the return
ReturnT(tr, v) ==
    /\ stack' = Pop(stack)
    /\ ret' = v
    /\ trace' = Append(tr, Event("return", Top.fn, Top.site, v))

Return(v) == ReturnT(trace, v)

LogRec(lv, k, f, m) == [level |-> lv, kind |-> k, func |-> f, msg |-> m]

(* ---------------------------------------------------------------------- *)
(* handle_errors (lines 132-154)                                           *)
(* ---------------------------------------------------------------------- *)
\* mutant: the wrapper re-raises without logging
Wrapper149Silent ==
    /\ exc # NoExc
    /\ stack # <<>>
    /\ Top.fn \in Wrapped
    /\ Top.pc # 150
    /\ stack' = [stack EXCEPT ![Len(stack)].pc = 150]
    /\ UNCHANGED <<exc, ret, log, stdout, fs, trace, locals, music, polls, txvars>>

\* line 149: error_logger.error(f"An error occurred in {func.__name__}: {e}")
Wrapper149 ==
    /\ exc # NoExc
    /\ stack # <<>>
    /\ Top.fn \in Wrapped
    /\ Top.pc # 150
    /\ log' = Append(log, LogRec("ERROR", "An error occurred in", Top.fn, exc))
    /\ stack' = [stack EXCEPT ![Len(stack)].pc = 150]
    /\ UNCHANGED <<exc, ret, stdout, fs, trace, locals, music, polls, txvars>>

\* mutant: an error reaching the validator's wrapper is turned into a
\* return of False
Wrapper150ValidatorFalse ==
    /\ exc # NoExc
    /\ stack # <<>>
    /\ Top.fn \in Wrapped
    /\ Top.pc = 150
    /\ IF Top.fn = "validate_and_reformat_audio_file"
       THEN /\ exc' = NoExc
            /\ Return(PyFalse)
       ELSE /\ stack' = Pop(stack)
            /\ trace' = Append(trace, Event("raise", Top.fn, Top.site, exc))
            /\ UNCHANGED <<exc, ret>>
    /\ UNCHANGED <<log, stdout, fs, locals, music, polls, txvars>>

\* line 150: raise e
Wrapper150 ==
    /\ exc # NoExc
    /\ stack # <<>>
    /\ Top.fn \in Wrapped
    /\ Top.pc = 150
    /\ stack' = Pop(stack)
    /\ trace' = Append(trace, Event("raise", Top.fn, Top.site, exc))
    /\ UNCHANGED <<exc, ret, log, stdout, fs, locals, music, polls, txvars>>

\* an exception in a function that is not decorated leaves it unlogged; run()
\* is the outermost frame, so the process ends with the exception
Propagate ==
    /\ exc # NoExc
    /\ stack # <<>>
    /\ Top.fn \notin Wrapped
    /\ stack' = Pop(stack)
    /\ trace' = Append(trace, Event("raise", Top.fn, Top.site, exc))
    /\ UNCHANGED <<exc, ret, log, stdout, fs, locals, music, polls, txvars>>

(* ---------------------------------------------------------------------- *)
(* run (lines 429-462)                                                     *)
(* ---------------------------------------------------------------------- *)
\* line 460: filename = copy_file_and_get_filename(input_file)
Run460Call ==
    /\ At("run", 460)
    /\ Call("copy_file_and_get_filename", input_file)
    /\ UNCHANGED <<exc, ret, log, stdout, fs, locals, music, polls, txvars>>

\* line 461: process_audio_file(filename)
Run461Call ==
    /\ Back("run", 460)
    /\ stack' = Append([stack EXCEPT ![Len(stack)] = [@ EXCEPT !.pc = 461, !.wait = TRUE]],
                       [fn |-> "process_audio_file", pc |-> Entry("process_audio_file"),
                        wait |-> FALSE, arg |-> ret, site |-> 461])
    /\ trace' = Append(trace, Event("call", "process_audio_file", 461, ret))
    /\ UNCHANGED <<exc, ret, log, stdout, fs, locals, music, polls, txvars>>

\* line 462: Path(filename).unlink(); unlink raises when the file is missing
\* or cannot be removed
Run462Unlink ==
    /\ Back("run", 461)
    /\ \/ /\ fs[input_file] # Absent
          /\ fs' = [fs EXCEPT ![input_file] = Absent]
          /\ stack' = <<>>
          /\ trace' = Append(Append(trace, Event("ext", "unlink", 462, input_file)),
                             Event("return", "run", 0, PyNone))
          /\ UNCHANGED exc
       \/ /\ exc' = IF fs[input_file] = Absent THEN "FileNotFoundError" ELSE "PermissionError"
          /\ trace' = Append(trace, Event("ext", "unlink", 462, input_file))
          /\ UNCHANGED <<fs, stack>>
    /\ UNCHANGED <<ret, log, stdout, locals, music, polls, txvars>>

(* ---------------------------------------------------------------------- *)
(* find_file, copy_file_and_get_filename (lines 157-211)                   *)
(* ---------------------------------------------------------------------- *)
\* lines 196-200: the path exists, or find_file is asked for it
Copy196 ==
    /\ At("copy_file_and_get_filename", 196)
    /\ \/ /\ stack' = Goto(209)
          /\ UNCHANGED trace
       \/ Call("find_file", Top.arg)
    /\ UNCHANGED <<exc, ret, log, stdout, fs, locals, music, polls, txvars>>

\* lines 172-176: the first file found, or FileNotFoundError
FindFile172 ==
    /\ At("find_file", 172)
    /\ \/ /\ Return(Top.arg)
          /\ UNCHANGED exc
       \/ /\ exc' = "FileNotFoundError"
          /\ UNCHANGED <<stack, ret, trace>>
    /\ UNCHANGED <<log, stdout, fs, locals, music, polls, txvars>>

Copy198Back ==
    /\ Back("copy_file_and_get_filename", 196)
    /\ stack' = Goto(209)
    /\ UNCHANGED <<exc, ret, log, stdout, fs, trace, locals, music, polls, txvars>>

\* lines 203-211: shutil.copy into the script's directory, return the name
Copy209 ==
    /\ At("copy_file_and_get_filename", 209)
    /\ \/ /\ fs' = [fs EXCEPT ![Top.arg] = "orig"]
          /\ ReturnT(Ext("shutil.copy", Top.arg), Top.arg)
          /\ UNCHANGED exc
       \/ /\ exc' = "SameFileError"
          /\ trace' = Ext("shutil.copy", Top.arg)
          /\ UNCHANGED <<fs, stack, ret>>
    /\ UNCHANGED <<log, stdout, locals, music, polls, txvars>>

(* ---------------------------------------------------------------------- *)
(* reformat_to_wav (lines 214-223)                                         *)
(* ---------------------------------------------------------------------- *)
\* line 222: sound = AudioSegment.from_mp3(filename)
Reformat222 ==
    /\ At("reformat_to_wav", 222)
    /\ trace' = Ext("from_mp3", Top.arg)
    /\ \/ /\ fs[Top.arg] # Absent
          /\ stack' = Goto(223)
          /\ UNCHANGED exc
       \/ /\ exc' = IF fs[Top.arg] = Absent THEN "FileNotFoundError"
                    ELSE "CouldntDecodeError"
          /\ UNCHANGED stack
    /\ UNCHANGED <<ret, log, stdout, fs, locals, music, polls, txvars>>

\* mutant: the export does not replace the file's bytes
Reformat223NoWrite ==
    /\ At("reformat_to_wav", 223)
    /\ ReturnT(Ext("export", Top.arg), PyNone)
    /\ UNCHANGED <<exc, fs, log, stdout, locals, music, polls, txvars>>

\* line 223: sound.export(filename, format="wav") replaces the file's bytes;
\* an export that fails leaves a partly written file
Reformat223 ==
    /\ At("reformat_to_wav", 223)
    /\ \/ /\ fs' = [fs EXCEPT ![Top.arg] = "wav"]
          /\ ReturnT(Ext("export", Top.arg), PyNone)
          /\ UNCHANGED exc
       \/ /\ fs' = [fs EXCEPT ![Top.arg] = "partial"]
          /\ exc' = "OSError"
          /\ trace' = Ext("export", Top.arg)
          /\ UNCHANGED <<stack, ret>>
    /\ UNCHANGED <<log, stdout, locals, music, polls, txvars>>

(* ---------------------------------------------------------------------- *)
(* validate_and_reformat_audio_file (lines 367-391)                        *)
(* ---------------------------------------------------------------------- *)
\* mutant: the extension is not tested
Val378NoExtensionTest ==
    /\ At("validate_and_reformat_audio_file", 378)
    /\ stack' = Goto(379)
    /\ UNCHANGED <<exc, ret, trace, log, stdout, fs, locals, music, polls, txvars>>

\* lines 378, 390-391: the extension test
Val378 ==
    /\ At("validate_and_reformat_audio_file", 378)
    /\ IF endswith(Top.arg, WavSuffix) \/ endswith(Top.arg, Mp3Suffix)
       THEN /\ stack' = Goto(379)
            /\ UNCHANGED <<ret, trace>>
       ELSE Return(PyFalse)
    /\ UNCHANGED <<exc, log, stdout, fs, locals, music, polls, txvars>>

\* line 379: reformat_to_wav(audio_file)
Val379Call ==
    /\ At("validate_and_reformat_audio_file", 379)
    /\ Call("reformat_to_wav", Top.arg)
    /\ UNCHANGED <<exc, ret, log, stdout, fs, locals, music, polls, txvars>>

Val379Back ==
    /\ Back("validate_and_reformat_audio_file", 379)
    /\ stack' = Goto(381)
    /\ UNCHANGED <<exc, ret, log, stdout, fs, trace, locals, music, polls, txvars>>

\* lines 380-389: wave.open succeeds, raises wave.Error (caught: warning,
\* return False), or raises another error such as EOFError (not caught)
Val381 ==
    /\ At("validate_and_reformat_audio_file", 381)
    /\ \/ /\ ReturnT(Ext("wave.open", Top.arg), PyTrue)
          /\ UNCHANGED <<exc, log>>
       \/ /\ ReturnT(Ext("wave.open", Top.arg), PyFalse)
          /\ log' = Append(log, LogRec("WARNING", "An error occurred while validating the file format",
                                       Top.fn, "wave.Error"))
          /\ UNCHANGED exc
       \/ /\ exc' = "EOFError"
          /\ trace' = Ext("wave.open", Top.arg)
          /\ UNCHANGED <<stack, ret, log>>
    /\ UNCHANGED <<stdout, fs, locals, music, polls, txvars>>

(* ---------------------------------------------------------------------- *)
(* convert_speech_to_text (lines 226-241)                                  *)
(* ---------------------------------------------------------------------- *)
\* lines 237-241: the recogniser returns a text or raises
Cst237 ==
    /\ At("convert_speech_to_text", 237)
    /\ \/ /\ fs[Top.arg] # Absent
          /\ \E t \in Transcripts : ReturnT(Ext("recognize_whisper", Top.arg), t)
          /\ UNCHANGED exc
       \/ /\ exc' = IF fs[Top.arg] = Absent THEN "FileNotFoundError"
                    ELSE "RecognitionError"
          /\ trace' = Ext("recognize_whisper", Top.arg)
          /\ UNCHANGED <<stack, ret>>
    /\ UNCHANGED <<log, stdout, fs, locals, music, polls, txvars>>

(* ---------------------------------------------------------------------- *)
(* process_text_through_gpt (lines 244-261)                                *)
(* ---------------------------------------------------------------------- *)
\* lines 255-259: the model generates and the tokenizer decodes, or raises
Ptg255 ==
    /\ At("process_text_through_gpt", 255)
    /\ trace' = Ext("generate", Top.arg)
    /\ \/ /\ \E g \in Replies : generated_text' = g
          /\ stack' = Goto(260)
          /\ UNCHANGED exc
       \/ /\ exc' = "GenerationError"
          /\ UNCHANGED <<stack, generated_text>>
    /\ UNCHANGED <<ret, log, stdout, fs, input_file, text, gpt_response, tts,
                   output_audio_file, response, music, polls, txvars>>

\* line 260: cleaned_up_text = remove_repetitive_sentences(generated_text)
Ptg260Call ==
    /\ At("process_text_through_gpt", 260)
    /\ Call("remove_repetitive_sentences", generated_text)
    /\ UNCHANGED <<exc, ret, log, stdout, fs, locals, music, polls, txvars>>

\* lines 275-306
Rrs276 ==
    /\ At("remove_repetitive_sentences", 276)
    /\ Return(remove_repetitive_sentences(Top.arg))
    /\ UNCHANGED <<exc, log, stdout, fs, locals, music, polls, txvars>>

\* line 261: return cleaned_up_text
Ptg261 ==
    /\ Back("process_text_through_gpt", 260)
    /\ Return(ret)
    /\ UNCHANGED <<exc, log, stdout, fs, locals, music, polls, txvars>>

(* ---------------------------------------------------------------------- *)
(* convert_text_to_speech (lines 309-321)                                  *)
(* ---------------------------------------------------------------------- *)
\* lines 320-321: the gTTS object for the text, or an error
Ctts320 ==
    /\ At("convert_text_to_speech", 320)
    /\ \/ /\ ReturnT(Ext("gTTS", Top.arg), Top.arg)
          /\ UNCHANGED exc
       \/ /\ exc' = "SynthesisError"
          /\ trace' = Ext("gTTS", Top.arg)
          /\ UNCHANGED <<stack, ret>>
    /\ UNCHANGED <<log, stdout, fs, locals, music, polls, txvars>>

(* ---------------------------------------------------------------------- *)
(* play_audio (lines 324-337)                                              *)
(* ---------------------------------------------------------------------- *)
\* line 332: reformat_to_wav(audio_file)
Play332Call ==
    /\ At("play_audio", 332)
    /\ Call("reformat_to_wav", Top.arg)
    /\ UNCHANGED <<exc, ret, log, stdout, fs, locals, music, polls, txvars>>

Play332Back ==
    /\ Back("play_audio", 332)
    /\ stack' = Goto(333)
    /\ UNCHANGED <<exc, ret, log, stdout, fs, trace, locals, music, polls, txvars>>

\* line 333: pygame.mixer.init()
Play333 ==
    /\ At("play_audio", 333)
    /\ trace' = Ext("mixer.init", Top.arg)
    /\ \/ /\ stack' = Goto(334)
          /\ UNCHANGED exc
       \/ /\ exc' = "pygame.error"
          /\ UNCHANGED stack
    /\ UNCHANGED <<ret, log, stdout, fs, locals, music, polls, txvars>>

\* line 334: pygame.mixer.music.load(audio_file)
Play334 ==
    /\ At("play_audio", 334)
    /\ trace' = Ext("music.load", Top.arg)
    /\ \/ /\ fs[Top.arg] # Absent
          /\ music' = "loaded"
          /\ stack' = Goto(335)
          /\ UNCHANGED exc
       \/ /\ exc' = "pygame.error"
          /\ UNCHANGED <<stack, music>>
    /\ UNCHANGED <<ret, log, stdout, fs, locals, polls, txvars>>

\* line 335: pygame.mixer.music.play()
Play335 ==
    /\ At("play_audio", 335)
    /\ trace' = Ext("music.play", Top.arg)
    /\ \/ /\ music' = "playing"
          /\ stack' = Goto(336)
          /\ UNCHANGED exc
       \/ /\ exc' = "pygame.error"
          /\ UNCHANGED <<stack, music>>
    /\ UNCHANGED <<ret, log, stdout, fs, locals, polls, txvars>>

\* lines 336-337: get_busy() is true, tick and poll again
Play336Busy ==
    /\ At("play_audio", 336)
    /\ music = "playing"
    /\ polls < MaxPolls
    /\ polls' = polls + 1
    /\ UNCHANGED <<stack, exc, ret, log, stdout, fs, trace, locals, music, txvars>>

\* mutant: the loop ends only on a player state that never comes
Play336DoneNever ==
    /\ At("play_audio", 336)
    /\ music = "idle"
    /\ music' = "stopped"
    /\ Return(PyNone)
    /\ UNCHANGED <<exc, log, stdout, fs, locals, polls, txvars>>

\* line 336: get_busy() is false, the loop and the function end
Play336Done ==
    /\ At("play_audio", 336)
    /\ music' = "stopped"
    /\ Return(PyNone)
    /\ UNCHANGED <<exc, log, stdout, fs, locals, polls, txvars>>

(* ---------------------------------------------------------------------- *)
(* process_audio (lines 340-364)                                           *)
(* ---------------------------------------------------------------------- *)
\* line 352: text = convert_speech_to_text(audio_file)
Pa352Call ==
    /\ At("process_audio", 352)
    /\ Call("convert_speech_to_text", Top.arg)
    /\ UNCHANGED <<exc, ret, log, stdout, fs, locals, music, polls, txvars>>

\* mutant: the first transcription is asked for a second time
Pa352BackAgain ==
    /\ Back("process_audio", 352)
    /\ text' = ret
    /\ stack' = Goto(IF text = Unset THEN 352 ELSE 355)
    /\ UNCHANGED <<exc, ret, log, stdout, fs, trace, input_file, generated_text,
                   gpt_response, tts, output_audio_file, response, music, polls, txvars>>

Pa352Back ==
    /\ Back("process_audio", 352)
    /\ text' = ret
    /\ stack' = Goto(355)
    /\ UNCHANGED <<exc, ret, log, stdout, fs, trace, input_file, generated_text,
                   gpt_response, tts, output_audio_file, response, music, polls, txvars>>

\* line 355: gpt_response = process_text_through_gpt(text)
Pa355Call ==
    /\ At("process_audio", 355)
    /\ Call("process_text_through_gpt", text)
    /\ UNCHANGED <<exc, ret, log, stdout, fs, locals, music, polls, txvars>>

Pa355Back ==
    /\ Back("process_audio", 355)
    /\ gpt_response' = ret
    /\ stack' = Goto(358)
    /\ UNCHANGED <<exc, ret, log, stdout, fs, trace, input_file, text, generated_text,
                   tts, output_audio_file, response, music, polls, txvars>>

\* line 358: tts = convert_text_to_speech(gpt_response)
Pa358Call ==
    /\ At("process_audio", 358)
    /\ Call("convert_text_to_speech", gpt_response)
    /\ UNCHANGED <<exc, ret, log, stdout, fs, locals, music, polls, txvars>>

Pa358Back ==
    /\ Back("process_audio", 358)
    /\ tts' = ret
    /\ stack' = Goto(361)
    /\ UNCHANGED <<exc, ret, log, stdout, fs, trace, input_file, text, generated_text,
                   gpt_response, output_audio_file, response, music, polls, txvars>>

\* mutant: the output path is derived from the input path
Pa361InputPath ==
    /\ At("process_audio", 361)
    /\ fs' = [fs EXCEPT ![Top.arg] = "tts"]
    /\ ReturnT(Ext("tts.save", Top.arg), Top.arg)
    /\ UNCHANGED <<exc, log, stdout, locals, music, polls, txvars>>

\* lines 361-364: tts.save("output_audio.wav"), return the path; a save that
\* fails leaves the path as it was or holding a partly written file
Pa361 ==
    /\ At("process_audio", 361)
    /\ \/ /\ fs' = [fs EXCEPT ![OutputName] = "tts"]
          /\ ReturnT(Ext("tts.save", OutputName), OutputName)
          /\ UNCHANGED exc
       \/ /\ \/ fs' = [fs EXCEPT ![OutputName] = "partial"]
             \/ UNCHANGED fs
          /\ exc' = "gTTSError"
          /\ trace' = Ext("tts.save", OutputName)
          /\ UNCHANGED <<stack, ret>>
    /\ UNCHANGED <<log, stdout, locals, music, polls, txvars>>

(* ---------------------------------------------------------------------- *)
(* process_audio_file (lines 394-426)                                      *)
(* ---------------------------------------------------------------------- *)
\* line 404: validate_and_reformat_audio_file(input_audio_file)
Paf404Call ==
    /\ At("process_audio_file", 404)
    /\ Call("validate_and_reformat_audio_file", Top.arg)
    /\ UNCHANGED <<exc, ret, log, stdout, fs, locals, music, polls, txvars>>

\* mutant: the validator's result is ignored
Paf404BackIgnore ==
    /\ Back("process_audio_file", 404)
    /\ stack' = Goto(414)
    /\ UNCHANGED <<exc, ret, log, stdout, fs, trace, locals, music, polls, txvars>>

\* line 404: if not ...
Paf404Back ==
    /\ Back("process_audio_file", 404)
    /\ stack' = Goto(IF ret = PyTrue THEN 414 ELSE 405)
    /\ UNCHANGED <<exc, ret, log, stdout, fs, trace, locals, music, polls, txvars>>

\* lines 405-411: print and log the rejection, return
Paf405 ==
    /\ At("process_audio_file", 405)
    /\ stdout' = Append(stdout, UnsupportedMsg)
    /\ log' = Append(log, LogRec("ERROR", UnsupportedMsg, Top.fn, "none"))
    /\ Return(PyNone)
    /\ UNCHANGED <<exc, fs, locals, music, polls, txvars>>

\* line 414: output_audio_file = process_audio(input_audio_file)
Paf414Call ==
    /\ At("process_audio_file", 414)
    /\ Call("process_audio", Top.arg)
    /\ UNCHANGED <<exc, ret, log, stdout, fs, locals, music, polls, txvars>>

Paf414Back ==
    /\ Back("process_audio_file", 414)
    /\ output_audio_file' = ret
    /\ stack' = Goto(417)
    /\ UNCHANGED <<exc, ret, log, stdout, fs, trace, input_file, text, generated_text,
                   gpt_response, tts, response, music, polls, txvars>>

\* line 417: logger.info("Playing the resulting audio...")
Paf417 ==
    /\ At("process_audio_file", 417)
    /\ log' = Append(log, LogRec("INFO", "Playing the resulting audio...", Top.fn, "none"))
    /\ stack' = Goto(418)
    /\ UNCHANGED <<exc, ret, stdout, fs, trace, locals, music, polls, txvars>>

\* line 418: play_audio(output_audio_file)
Paf418Call ==
    /\ At("process_audio_file", 418)
    /\ Call("play_audio", output_audio_file)
    /\ UNCHANGED <<exc, ret, log, stdout, fs, locals, music, polls, txvars>>

\* mutant: after playback the run goes straight to the cleanup
Paf418BackSkipVerify ==
    /\ Back("process_audio_file", 418)
    /\ stack' = Goto(425)
    /\ UNCHANGED <<exc, ret, log, stdout, fs, trace, locals, music, polls, txvars>>

Paf418Back ==
    /\ Back("process_audio_file", 418)
    /\ stack' = Goto(421)
    /\ UNCHANGED <<exc, ret, log, stdout, fs, trace, locals, music, polls, txvars>>

\* line 421: response = convert_speech_to_text(output_audio_file)
Paf421Call ==
    /\ At("process_audio_file", 421)
    /\ Call("convert_speech_to_text", output_audio_file)
    /\ UNCHANGED <<exc, ret, log, stdout, fs, locals, music, polls, txvars>>

\* mutant: a response that differs from the reply fails the run
Paf422Gate ==
    /\ Back("process_audio_file", 421)
    /\ response' = ret
    /\ log' = Append(log, LogRec("INFO", "The obtained response is", Top.fn, ret))
    /\ IF ret = tts
       THEN /\ stack' = Goto(425)
            /\ UNCHANGED exc
       ELSE /\ exc' = "MismatchError"
            /\ UNCHANGED stack
    /\ UNCHANGED <<ret, stdout, fs, trace, input_file, text, generated_text,
                   gpt_response, tts, output_audio_file, music, polls, txvars>>

\* line 422: logger.info('The obtained response is "%s".', response)
Paf422 ==
    /\ Back("process_audio_file", 421)
    /\ response' = ret
    /\ log' = Append(log, LogRec("INFO", "The obtained response is", Top.fn, ret))
    /\ stack' = Goto(425)
    /\ UNCHANGED <<exc, ret, stdout, fs, trace, input_file, text, generated_text,
                   gpt_response, tts, output_audio_file, music, polls, txvars>>

\* mutant: the cleanup step leaves the file in place
Paf425NoDelete ==
    /\ At("process_audio_file", 425)
    /\ trace' = Ext("unlink", output_audio_file)
    /\ stack' = Goto(426)
    /\ UNCHANGED <<exc, fs, ret, log, stdout, locals, music, polls, txvars>>

\* line 425: Path(output_audio_file).unlink()
Paf425 ==
    /\ At("process_audio_file", 425)
    /\ trace' = Ext("unlink", output_audio_file)
    /\ \/ /\ fs[output_audio_file] # Absent
          /\ fs' = [fs EXCEPT ![output_audio_file] = Absent]
          /\ stack' = Goto(426)
          /\ UNCHANGED exc
       \/ /\ exc' = IF fs[output_audio_file] = Absent THEN "FileNotFoundError"
                    ELSE "PermissionError"
          /\ UNCHANGED <<stack, fs>>
    /\ UNCHANGED <<ret, log, stdout, locals, music, polls, txvars>>

\* line 426: print("The task is completed.")
Paf426 ==
    /\ At("process_audio_file", 426)
    /\ stdout' = Append(stdout, CompletedMsg)
    /\ Return(PyNone)
    /\ UNCHANGED <<exc, log, fs, locals, music, polls, txvars>>

(* ---------------------------------------------------------------------- *)
(* Spec: one run of the program                                            *)
(* ---------------------------------------------------------------------- *)
TextIdle ==
    /\ tx_pc = 0
    /\ tx_in = <<>>
    /\ tx_out = <<>>
    /\ tx_out2 = <<>>

\* the state when run() reaches line 460; a file left at the output path by
\* an earlier run may be there
Init ==
    /\ input_file \in InputNames
    /\ stack = <<[fn |-> "run", pc |-> 460, wait |-> FALSE, arg |-> input_file, site |-> 0]>>
    /\ exc = NoExc
    /\ ret = Unset
    /\ log = <<>>
    /\ stdout = <<>>
    /\ \E c \in {Absent, "stale"} : fs = [p \in Paths |-> IF p = OutputName THEN c ELSE Absent]
    /\ trace = <<>>
    /\ text = Unset
    /\ generated_text = Unset
    /\ gpt_response = Unset
    /\ tts = Unset
    /\ output_audio_file = Unset
    /\ response = Unset
    /\ music = "idle"
    /\ polls = 0
    /\ TextIdle

Next ==
    \/ Wrapper149 \/ Wrapper150 \/ Propagate
    \/ Run460Call \/ Run461Call \/ Run462Unlink
    \/ Copy196 \/ FindFile172 \/ Copy198Back \/ Copy209
    \/ Reformat222 \/ Reformat223
    \/ Val378 \/ Val379Call \/ Val379Back \/ Val381
    \/ Cst237
    \/ Ptg255 \/ Ptg260Call \/ Rrs276 \/ Ptg261
    \/ Ctts320
    \/ Play332Call \/ Play332Back \/ Play333 \/ Play334 \/ Play335
    \/ Play336Busy \/ Play336Done
    \/ Pa352Call \/ Pa352Back \/ Pa355Call \/ Pa355Back \/ Pa358Call
    \/ Pa358Back \/ Pa361
    \/ Paf404Call \/ Paf404Back \/ Paf405 \/ Paf414Call \/ Paf414Back
    \/ Paf417 \/ Paf418Call \/ Paf418Back \/ Paf421Call \/ Paf422
    \/ Paf425 \/ Paf426

Spec == Init /\ [][Next]_vars

\* every step of Next changes the stack, the exception in flight or the
\* number of polls
progress == <<stack, exc, polls>>

\* the program is sequential and keeps executing: a step that can be taken
\* is taken; a player that is playing stops after at most MaxPolls polls
LiveSpec == Init /\ [][Next]_vars /\ WF_progress(Next)

(* ---------------------------------------------------------------------- *)
(* TextSpec: remove_repetitive_sentences over all bounded texts            *)
(* ---------------------------------------------------------------------- *)
TextInit ==
    /\ tx_in \in TextsUpTo(MaxTextLen)
    /\ tx_pc = 0
    /\ tx_out = <<>>
    /\ tx_out2 = <<>>
    /\ input_file = WavName
    /\ stack = <<>>
    /\ exc = NoExc
    /\ ret = Unset
    /\ log = <<>>
    /\ stdout = <<>>
    /\ fs = [p \in Paths |-> Absent]
    /\ trace = <<>>
    /\ text = Unset
    /\ generated_text = Unset
    /\ gpt_response = Unset
    /\ tts = Unset
    /\ output_audio_file = Unset
    /\ response = Unset
    /\ music = "idle"
    /\ polls = 0

\* result = remove_repetitive_sentences(text)
TextApply ==
    /\ tx_pc = 0
    /\ tx_out' = remove_repetitive_sentences(tx_in)
    /\ tx_pc' = 1
    /\ UNCHANGED <<tx_in, tx_out2, pvars>>

\* remove_repetitive_sentences(result)
TextApplyAgain ==
    /\ tx_pc = 1
    /\ tx_out2' = remove_repetitive_sentences(tx_out)
    /\ tx_pc' = 2
    /\ UNCHANGED <<tx_in, tx_out, pvars>>

TextNext == TextApply \/ TextApplyAgain

TextSpec == TextInit /\ [][TextNext]_vars

(* ---------------------------------------------------------------------- *)
(* Observations on the history                                             *)
(* ---------------------------------------------------------------------- *)
Idx == DOMAIN trace

Called(f) == \E i \in Idx : trace[i].ev = "call" /\ trace[i].op = f
Returned(f) == \E i \in Idx : trace[i].ev = "return" /\ trace[i].op = f
Raised(f) == \E i \in Idx : trace[i].ev = "raise" /\ trace[i].op = f

Printed(m) == \E i \in DOMAIN stdout : stdout[i] = m

\* the run of process_audio_file is over
PafReturned == Returned("process_audio_file")
PafRaised == Raised("process_audio_file")
PafEnded == PafReturned \/ PafRaised

\* terminal states of the run
Done == PafReturned /\ Printed(CompletedMsg)
Failed == PafRaised \/ (PafReturned /\ Printed(UnsupportedMsg))

StageOrder == <<"Validate", "Transcribe", "Generate", "Synthesize", "Play",
                "Verify", "Cleanup">>

\* the stage an event invokes, or "" when it invokes none
StageInvoked(e) ==
    CASE e.ev = "call" /\ e.op = "validate_and_reformat_audio_file" -> "Validate"
      [] e.ev = "call" /\ e.op = "convert_speech_to_text" /\ e.site = 352 -> "Transcribe"
      [] e.ev = "call" /\ e.op = "process_text_through_gpt" -> "Generate"
      [] e.ev = "call" /\ e.op = "convert_text_to_speech" -> "Synthesize"
      [] e.ev = "call" /\ e.op = "play_audio" -> "Play"
      [] e.ev = "call" /\ e.op = "convert_speech_to_text" /\ e.site = 421 -> "Verify"
      [] e.ev = "ext" /\ e.op = "unlink" /\ e.site = 425 -> "Cleanup"
      [] OTHER -> ""

\* the stage an event completes, or "": synthesis is complete when the
\* reply has been synthesized and saved, which is when process_audio returns
StageCompleted(e) ==
    CASE e.ev = "return" /\ e.op = "validate_and_reformat_audio_file" ->
            IF e.val = PyTrue THEN "Validate" ELSE ""
      [] e.ev = "return" /\ e.op = "convert_speech_to_text" /\ e.site = 352 -> "Transcribe"
      [] e.ev = "return" /\ e.op = "process_text_through_gpt" -> "Generate"
      [] e.ev = "return" /\ e.op = "process_audio" -> "Synthesize"
      [] e.ev = "return" /\ e.op = "play_audio" -> "Play"
      [] e.ev = "return" /\ e.op = "convert_speech_to_text" /\ e.site = 421 -> "Verify"
      [] OTHER -> ""

IsStageInvocation(e) == StageInvoked(e) # ""

\* the stages invoked so far, in order of invocation
StagesInvoked ==
    LET calls == SelectSeq(trace, IsStageInvocation)
    IN  [k \in DOMAIN calls |-> StageInvoked(calls[k])]

StageCompletedBefore(st, i) ==
    \E j \in Idx : j < i /\ StageCompleted(trace[j]) = st

StageNo(st) == CHOOSE k \in DOMAIN StageOrder : StageOrder[k] = st

\* an error left a function that runs within process_audio_file
IsPipelineRaise(e) ==
    /\ e.ev = "raise"
    /\ e.op \notin {"run", "copy_file_and_get_filename", "find_file"}

ValidatorReturnedFalse ==
    \E i \in Idx : /\ trace[i].ev = "return"
                   /\ trace[i].op = "validate_and_reformat_audio_file"
                   /\ trace[i].val = PyFalse

CleanupInvoked ==
    \E i \in Idx : trace[i].ev = "ext" /\ trace[i].op = "unlink" /\ trace[i].site = 425

\* the synthesized reply was written to the output path
OutputWritten == Returned("process_audio")

ErrorEntries == SelectSeq(log, LAMBDA r : r.level = "ERROR")

(* ---------------------------------------------------------------------- *)
(* Claims                                                                  *)
(* ---------------------------------------------------------------------- *)

\* C1: the stages of a run are invoked only in the order Validate,
\* Transcribe, Generate, Synthesize, Play, Verify, Cleanup; a stage is
\* invoked only after the stage before it completed without raising (the
\* validator having returned true); after an error has left any stage no
\* further stage is invoked.
C1_StageOrder ==
    /\ Len(StagesInvoked) <= Len(StageOrder)
    /\ \A k \in DOMAIN StagesInvoked : StagesInvoked[k] = StageOrder[k]
    /\ \A i \in Idx :
          LET st == StageInvoked(trace[i])
          IN  (st # "" /\ st # "Validate") =>
                  StageCompletedBefore(StageOrder[StageNo(st) - 1], i)
    /\ \A i \in Idx :
          IsPipelineRaise(trace[i]) =>
              \A j \in (i + 1)..Len(trace) : ~IsStageInvocation(trace[j])

C1_Witness ==
    /\ Done
    /\ Len(StagesInvoked) = 7

\* C2: a run that ends in Done has completed every stage through Verify and
\* leaves no file at the output path; the output file is unlinked only after
\* Verify completed; a run in which an error is raised after the output file
\* was written ends in Failed with the file still there.
C2_CleanupIffSuccess ==
    /\ Done => /\ fs[OutputName] = Absent
               /\ \E i \in Idx : StageCompleted(trace[i]) = "Verify"
    /\ \A i \in Idx :
          StageInvoked(trace[i]) = "Cleanup" => StageCompletedBefore("Verify", i)
    /\ (PafRaised /\ OutputWritten) => (Failed /\ fs[OutputName] # Absent)
    /\ (PafEnded /\ ~Done) => Failed

C2_Witness ==
    /\ PafRaised
    /\ OutputWritten
    /\ Raised("play_audio")
    /\ fs[OutputName] = "wav"

GenerationRaised == Raised("process_text_through_gpt")

\* C3 as stated: when reply generation raises, the run ends in Failed
\* without cleanup and the log holds exactly one error entry, which names
\* the generation stage.
C3_LoggedOnce ==
    (PafEnded /\ GenerationRaised) =>
        /\ Failed
        /\ ~CleanupInvoked
        /\ Len(ErrorEntries) = 1
        /\ ErrorEntries[1].func = "process_text_through_gpt"

\* C3 as amended: when reply generation raises, the run ends in Failed
\* without cleanup and the error is logged once by each wrapped function it
\* leaves: three error entries carrying the same error, naming
\* process_text_through_gpt, process_audio and process_audio_file in turn.
C3_LoggedPerWrapper ==
    (PafEnded /\ GenerationRaised) =>
        /\ Failed
        /\ ~CleanupInvoked
        /\ Len(ErrorEntries) = 3
        /\ ErrorEntries[1].func = "process_text_through_gpt"
        /\ ErrorEntries[2].func = "process_audio"
        /\ ErrorEntries[3].func = "process_audio_file"
        /\ \A k \in 1..3 : /\ ErrorEntries[k].msg = "GenerationError"
                           /\ ErrorEntries[k].kind = "An error occurred in"

C3_Witness ==
    /\ PafRaised
    /\ GenerationRaised
    /\ Returned("convert_speech_to_text")
    /\ exc = "GenerationError"

\* C4: when an error leaves a wrapped function, the log's latest entry is an
\* error entry naming that function and carrying the error, and the error in
\* flight is the same one; an error in flight is never replaced or dropped,
\* and nothing returns normally while it is in flight.
C4_LogThenReraise ==
    [][ /\ (exc # NoExc /\ stack # <<>> /\ Len(stack') < Len(stack)
               /\ Top.fn \in Wrapped) =>
            /\ exc' = exc
            /\ log # <<>>
            /\ log[Len(log)] = LogRec("ERROR", "An error occurred in", Top.fn, exc)
            /\ log' = log
            /\ trace'[Len(trace')].ev = "raise"
            /\ trace'[Len(trace')].op = Top.fn
        /\ exc # NoExc =>
            /\ exc' = exc
            /\ (trace' # trace => trace'[Len(trace')].ev = "raise")
      ]_vars

C4_Witness ==
    /\ Raised("reformat_to_wav")
    /\ Raised("play_audio")
    /\ PafRaised
    /\ exc = "CouldntDecodeError"
    /\ Len(ErrorEntries) = 3

\* C5: once the validator has returned false no stage after validation is
\* invoked, and the run ends by returning normally (no error leaves
\* process_audio_file) in Failed with the rejection message printed and
\* logged at error severity.
C5_Rejection ==
    ValidatorReturnedFalse =>
        /\ Len(StagesInvoked) = 1
        /\ ~Called("process_audio")
        /\ ~Called("convert_speech_to_text")
        /\ ~Called("process_text_through_gpt")
        /\ ~Called("convert_text_to_speech")
        /\ ~Called("play_audio")
        /\ ~CleanupInvoked
        /\ ~PafRaised
        /\ PafEnded =>
              /\ PafReturned
              /\ Failed
              /\ Len(ErrorEntries) = 1
              /\ ErrorEntries[1].kind = UnsupportedMsg

C5_Witness ==
    /\ ValidatorReturnedFalse
    /\ PafReturned
    /\ input_file = TxtName
    /\ stack = <<>>

(* ---------------------------------------------------------------------- *)
(* Claims about remove_repetitive_sentences                                *)
(* ---------------------------------------------------------------------- *)
HasPeriod(t) == \E i \in DOMAIN t : t[i] = "."

\* the sentences of a text: its pieces between terminators, trimmed, the
\* empty ones left out
SentencesOf(t) ==
    LET pieces == split(t)
        trimmed == [k \in DOMAIN pieces |-> strip(pieces[k])]
    IN  SelectSeq(trimmed, LAMBDA x : x # <<>>)

NoRepeatedSentence(t) ==
    LET ss == SentencesOf(t)
    IN  \A i, j \in DOMAIN ss : i # j => ss[i] # ss[j]

\* position in the input of the first sentence equal to x, 0 when none is
FirstOccurrence(t, x) ==
    LET ss == SentencesOf(t)
        S == {i \in DOMAIN ss : ss[i] = x}
    IN  IF S = {} THEN 0 ELSE SetMin(S)

InFirstOccurrenceOrder(in, out) ==
    LET ss == SentencesOf(out)
    IN  /\ \A k \in DOMAIN ss : FirstOccurrence(in, ss[k]) > 0
        /\ \A k \in DOMAIN ss :
              k > 1 => FirstOccurrence(in, ss[k - 1]) < FirstOccurrence(in, ss[k])

\* C6: remove_repetitive_sentences is idempotent: applied to its own output
\* it returns that output.
C6_Idempotent == tx_pc = 2 => tx_out2 = tx_out

\* C7: for an input containing a terminator the output holds no two equal
\* sentences, and its sentences stand in the order in which they first occur
\* in the input.
C7_UniqueInOrder ==
    (tx_pc >= 1 /\ HasPeriod(tx_in)) =>
        /\ NoRepeatedSentence(tx_out)
        /\ InFirstOccurrenceOrder(tx_in, tx_out)

C7_Witness ==
    /\ tx_pc = 1
    /\ tx_in = <<"b", ".", "a", ".", "b", ".">>
    /\ tx_out = <<"b", ".", "a">>

ExpectedHappyResponse == <<"H", "i", ".", " ", "H", "o", "w", " ", "a", "r", "e", " ", "y", "o", "u", ".">>

\* C8: for the generated reply "Hi. Hi. How are you." the text handed to
\* synthesis is "Hi. How are you.".
C8_HappyReply ==
    \A i \in Idx :
        (/\ generated_text = HappyReply
         /\ trace[i].ev = "call"
         /\ trace[i].op = "convert_text_to_speech") =>
            trace[i].val = ExpectedHappyResponse

\* C9: a generated text without a terminator comes back from
\* remove_repetitive_sentences, and so from process_text_through_gpt,
\* exactly as it was, surrounding blanks included.
C9_NoPeriodUnchanged ==
    \A i \in Idx :
        (/\ ~HasPeriod(generated_text)
         /\ trace[i].ev = "return"
         /\ trace[i].op \in {"remove_repetitive_sentences", "process_text_through_gpt"}) =>
            trace[i].val = generated_text

C9_Witness ==
    /\ generated_text = <<" ", "a">>
    /\ gpt_response = <<" ", "a">>
    /\ Returned("process_text_through_gpt")

\* s ends in suffix
EndsIn(s, suffix) == \E k \in 0..Len(s) : s = SubSeq(s, 1, k) \o suffix

AudioNamed(path) == EndsIn(path, WavSuffix) \/ EndsIn(path, Mp3Suffix)

\* C10: for a path that ends in neither .wav nor .mp3 the validator returns
\* false, reformat_to_wav is never invoked and nothing re-encodes or
\* otherwise rewrites the file: it keeps the bytes the caller gave it.
C10_NonAudioUntouched ==
    ~AudioNamed(input_file) =>
        /\ ~Called("reformat_to_wav")
        /\ \A i \in Idx :
              /\ (trace[i].ev = "return" /\ trace[i].op = "validate_and_reformat_audio_file")
                    => trace[i].val = PyFalse
              /\ trace[i].ev = "ext" => trace[i].op \notin {"from_mp3", "export", "wave.open"}
        /\ Called("validate_and_reformat_audio_file") =>
              \/ fs[input_file] = "orig"
              \/ \E i \in Idx : /\ trace[i].ev = "ext" /\ trace[i].op = "unlink"
                                /\ trace[i].site = 462

C10_Witness ==
    /\ input_file = UpperName
    /\ ValidatorReturnedFalse
    /\ fs[input_file] = "orig"

(* ---------------------------------------------------------------------- *)
(* Claims about the validator, the output path and file ownership          *)
(* ---------------------------------------------------------------------- *)
\* the re-encode called by the validator returned
ReencodeSucceeded ==
    \E i \in Idx : /\ trace[i].ev = "return" /\ trace[i].op = "reformat_to_wav"
                   /\ trace[i].site = 379

OpenAttempted == \E i \in Idx : trace[i].ev = "ext" /\ trace[i].op = "wave.open"

OpenWarned == \E k \in DOMAIN log : log[k].level = "WARNING"

\* C11: when the re-encode of a .wav or .mp3 named file succeeded and the
\* file cannot be opened as WAV, whatever the failure, the validator returns
\* false: no error leaves validate_and_reformat_audio_file once the re-encode
\* has succeeded.
C11_OpenFailureIsFalse ==
    ReencodeSucceeded => ~Raised("validate_and_reformat_audio_file")

\* C12: the validator returns true exactly when the path ends in .wav or
\* .mp3, the in-place re-encode returned and the file then opened as WAV;
\* when it has returned true the file at the same path holds the re-encoded
\* bytes, written by an export to that path.
C12_TrueIffReencodedAndOpens ==
    /\ \A i \in Idx :
          (trace[i].ev = "return" /\ trace[i].op = "validate_and_reformat_audio_file") =>
              (trace[i].val = PyTrue <=>
                  /\ AudioNamed(input_file)
                  /\ ReencodeSucceeded
                  /\ OpenAttempted
                  /\ ~OpenWarned)
    /\ Back("process_audio_file", 404) =>
          (ret = PyTrue =>
              /\ fs[input_file] = "wav"
              /\ \E i \in Idx : /\ trace[i].ev = "ext" /\ trace[i].op = "export"
                                /\ trace[i].val = input_file)

C12_Witness ==
    /\ Back("process_audio_file", 404)
    /\ ret = PyTrue
    /\ input_file = Mp3Name
    /\ fs[input_file] = "wav"

\* C13: whatever the input path, the synthesized speech is saved to
\* output_audio.wav and nowhere else, replacing what was there, and
\* process_audio returns that path.
C13_FixedOutputPath ==
    /\ \A i \in Idx :
          /\ (trace[i].ev = "ext" /\ trace[i].op = "tts.save") => trace[i].val = OutputName
          /\ (trace[i].ev = "return" /\ trace[i].op = "process_audio") => trace[i].val = OutputName
    /\ \A p \in Paths : fs[p] = "tts" => p = OutputName
    /\ Back("process_audio_file", 414) => fs[OutputName] = "tts"
    /\ output_audio_file \in {Unset, OutputName}

C13_Witness ==
    /\ Back("process_audio_file", 414)
    /\ input_file = Mp3Name
    /\ ret = OutputName
    /\ fs[OutputName] = "tts"
    /\ fs[input_file] = "wav"

\* an unlink of path p from line n
UnlinkedAt(n, p) ==
    \E i \in Idx : /\ trace[i].ev = "ext" /\ trace[i].op = "unlink"
                   /\ trace[i].site = n /\ trace[i].val = p

\* C14: the pipeline unlinks no path but that of the synthesized output, and
\* the input file is removed by nothing but line 462 of run(), after
\* process_audio_file has ended: while run() has not unlinked it, the file
\* copied for the run is there.
C14_InputOwnedByCaller ==
    /\ \A i \in Idx :
          (trace[i].ev = "ext" /\ trace[i].op = "unlink") =>
              \/ trace[i].site = 425 /\ trace[i].val = OutputName
              \/ trace[i].site = 462 /\ trace[i].val = input_file /\ PafEnded
    /\ (Called("process_audio_file") /\ ~UnlinkedAt(462, input_file)) =>
          fs[input_file] # Absent

(* ---------------------------------------------------------------------- *)
(* Claims about termination, retries and the verify step                   *)
(* ---------------------------------------------------------------------- *)
\* positions of the events a step adds to the history
NewIdx == (Len(trace) + 1)..Len(trace')

\* C15: a run of process_audio_file that has begun ends; when it has ended
\* it is in exactly one of Done and Failed, stays there, and the pipeline
\* takes no further step (only run() goes on: its unlink of line 462, its
\* own end).
C15_Terminates ==
    /\ [](PafEnded => (Done # Failed))
    /\ [][PafEnded =>
            /\ PafEnded'
            /\ Done' = Done
            /\ Failed' = Failed
            /\ UNCHANGED <<log, stdout, locals, music, polls>>
            /\ \A i \in NewIdx :
                  \/ trace'[i].op = "run"
                  \/ /\ trace'[i].ev = "ext" /\ trace'[i].op = "unlink"
                     /\ trace'[i].site = 462
       ]_progress
    /\ (Called("process_audio_file") ~> PafEnded)

C15_Witness ==
    /\ Done
    /\ polls > 0
    /\ music = "stopped"
    /\ stack = <<>>

CountCalls(f) == Cardinality({i \in Idx : trace[i].ev = "call" /\ trace[i].op = f})
CountExt(o) == Cardinality({i \in Idx : trace[i].ev = "ext" /\ trace[i].op = o})

\* C16: in one run validation, generation, synthesis (and its save),
\* playback (one load and one play, of the output file) and cleanup are each
\* invoked at most once, and transcription at most twice: at most once on
\* the input from line 352 and at most once on the output from line 421.
C16_NoRetry ==
    /\ CountCalls("process_audio_file") <= 1
    /\ CountCalls("validate_and_reformat_audio_file") <= 1
    /\ CountCalls("process_audio") <= 1
    /\ CountCalls("process_text_through_gpt") <= 1
    /\ CountCalls("convert_text_to_speech") <= 1
    /\ CountCalls("play_audio") <= 1
    /\ CountCalls("convert_speech_to_text") <= 2
    /\ CountExt("generate") <= 1
    /\ CountExt("tts.save") <= 1
    /\ CountExt("music.load") <= 1
    /\ CountExt("music.play") <= 1
    /\ Cardinality({i \in Idx : StageInvoked(trace[i]) = "Cleanup"}) <= 1
    /\ Cardinality({i \in Idx : StageInvoked(trace[i]) = "Transcribe"}) <= 1
    /\ Cardinality({i \in Idx : StageInvoked(trace[i]) = "Verify"}) <= 1
    /\ \A i \in Idx :
          /\ StageInvoked(trace[i]) = "Transcribe" => trace[i].val = input_file
          /\ StageInvoked(trace[i]) = "Verify" => trace[i].val = OutputName
          /\ (trace[i].ev = "ext" /\ trace[i].op \in {"music.load", "music.play"})
                => trace[i].val = OutputName

C16_Witness ==
    /\ PafRaised
    /\ CountCalls("convert_speech_to_text") = 2
    /\ CountExt("music.play") = 1
    /\ exc = "RecognitionError"

VerifyCompleted == \E i \in Idx : StageCompleted(trace[i]) = "Verify"

\* C17: whatever text the second transcription returns, equal to the reply
\* or not, the run goes on to the cleanup: a run that has ended after the
\* verify step returned has invoked the cleanup, and is Done unless the
\* unlink itself raised.
C17_VerifyDoesNotGate ==
    (VerifyCompleted /\ PafEnded) =>
        /\ CleanupInvoked
        /\ \/ Done
           \/ PafRaised /\ exc \in {"PermissionError", "FileNotFoundError"}

C17_Witness ==
    /\ Done
    /\ response # tts
    /\ fs[OutputName] = Absent

(* ---------------------------------------------------------------------- *)
(* Claims about the length and the trailing fragment of the cleaned text   *)
(* ---------------------------------------------------------------------- *)
\* C18: the text remove_repetitive_sentences returns is never longer than
\* the text it was given, on the first application and on the second.
C18_NoLonger ==
    /\ tx_pc >= 1 => Len(tx_out) <= Len(tx_in)
    /\ tx_pc >= 2 => Len(tx_out2) <= Len(tx_out)

C18_Witness ==
    /\ tx_pc = 1
    /\ tx_in = <<"a", ".", " ", "a", ".", "b">>
    /\ tx_out = <<"a">>

\* the text up to and including its last terminator
UpToLastPeriod(t) == SubSeq(t, 1, SetMax({i \in DOMAIN t : t[i] = "."}))

\* bound on the trailing fragments appended in C19
MaxFragmentLen == 2

\* trailing fragments: texts without a terminator
Fragments ==
    {f \in TextsUpTo(MaxFragmentLen) : ~HasPeriod(f)}

\* C19: for a text with a terminator, what follows the last terminator does
\* not reach the output: the text cut after its last terminator, and that
\* cut followed by any other fragment, give the output the text gave.
C19_FragmentIgnored ==
    (tx_pc >= 1 /\ HasPeriod(tx_in)) =>
        \A f \in Fragments :
            remove_repetitive_sentences(UpToLastPeriod(tx_in) \o f) = tx_out

C19_Witness ==
    /\ tx_pc = 1
    /\ tx_in = <<"a", ".", "b">>
    /\ tx_out = <<"a">>

(* ---------------------------------------------------------------------- *)
(* Claim about run() and the copied input file                             *)
(* ---------------------------------------------------------------------- *)
\* run() is over: it returned, or the error left it
RunEnded == Returned("run") \/ Raised("run")

\* C20: run() removes the copied input file exactly when process_audio_file
\* returned normally, the rejection of an unsupported format included: line
\* 462 is tried only after such a return, and unless the unlink is refused
\* (PermissionError) a run that got there has removed the file itself and
\* returned; when process_audio_file raised, line 462 is never tried, the
\* file is still there, and the same error leaves run().
C20_CallerDeletesIffReturned ==
    /\ UnlinkedAt(462, input_file) => PafReturned
    /\ (PafReturned /\ RunEnded) =>
          /\ UnlinkedAt(462, input_file)
          /\ exc # "PermissionError" =>
                /\ Returned("run")
                /\ exc = NoExc
                /\ fs[input_file] = Absent
    /\ PafRaised =>
          /\ ~UnlinkedAt(462, input_file)
          /\ fs[input_file] # Absent
          /\ exc # NoExc
          /\ ~Returned("run")
          /\ RunEnded =>
                \E i \in Idx : /\ trace[i].ev = "raise" /\ trace[i].op = "run"
                               /\ trace[i].val = exc

\* the claim on the runs whose input is not named like the output
C20_UnlessAliased == input_file # OutputName => C20_CallerDeletesIffReturned

(* ---------------------------------------------------------------------- *)
(* Claim about a re-encode that raises                                     *)
(* ---------------------------------------------------------------------- *)
\* the call of reformat_to_wav made at line 379 raised
ReencodeRaised ==
    \E i \in Idx : /\ trace[i].ev = "raise" /\ trace[i].op = "reformat_to_wav"
                   /\ trace[i].site = 379

====
